---------------------------- MODULE Spec2Model ----------------------------
(***************************************************************************)
(* Call-graph extractor and viewer of callgraph-viz.                       *)
(*                                                                         *)
(*   src/src/generate_graph.rs  generate_graph, build_graph_from_stmt,     *)
(*                              build_graph, get_call_idents               *)
(*   src/src/visualize.rs       setup, load_graph, graph_highlights,       *)
(*                              graph_components                           *)
(*                                                                         *)
(* The specifications share the definitions below:                         *)
(*   Spec        generate_graph, one top-level statement at a time, one    *)
(*               build_graph call per step                                 *)
(*   SpecWalk    get_call_idents and build_graph applied to one expression *)
(*   SpecView    the viewer as src/ runs it: setup sends one LoadGraph,    *)
(*               load_graph installs the graph, graph_highlights analyses  *)
(*   SpecReload  SpecView plus further LoadGraph events and file edits     *)
(*   SpecFrames  the viewer over frames: draw_edges and node movement      *)
(*   SpecRebuild generate_graph called repeatedly on one source            *)
(***************************************************************************)
EXTENDS Integers, Sequences, FiniteSets, Bags, TLC

VARIABLES
    \* ---- generate_graph (Spec)
    pc,            \* "parse" | "loop" | "done" | "error"
    graph,         \* HashMap<String, Vec<String>>: the local `graph`
    current_name,  \* the local `current_name`
    todo,          \* expressions of the current top-level statement still to be
                   \* handed to build_graph, in call order
    stmt,          \* history: the top-level statement being processed (<<>> or <<s>>)
    graph0,        \* history: `graph` when that statement was fetched
    scopes,        \* history: current_name of each top-level statement so far
    walked,        \* history: per scope, every name the walker produced under it
    parsed,        \* what rustpython_parser::parse returned: <<>> before the
                   \* call, then <<"Ok">> or <<"Err", e>>
    result,        \* what generate_graph returned: <<>> before it returns,
                   \* then <<"Ok", graph>> or <<"Err", anyhow error>>
    \* ---- get_call_idents (SpecWalk)
    expr,          \* the expression handed to build_graph
    idents,        \* the accumulator `current` after get_call_idents
    wpc,           \* "init" | "walked" | "built"
    \* ---- viewer (SpecView, SpecReload) and repeated builds (SpecRebuild)
    file,          \* the module parsed from LoadPath
    events,        \* unread LoadGraph events
    sent,          \* LoadGraph events sent so far
    started,       \* the Startup schedule has run
    res_graph,     \* NodeGraph: petgraph Graph<Entity, ()>
    nodes,         \* entities with a Node component: entity -> Node and label
    edges,         \* bag of Edge components
    next_entity,   \* next fresh entity id
    highlight,     \* entities with a Highlight component: entity -> colour
    analysis,      \* history: the last arm graph_highlights took, what it
                   \* computed and the NodeGraph it read: [key, out, on]
    built,         \* history: graphs generate_graph returned, oldest first
    panicked,      \* a system panicked: the app is gone
    translation,   \* Transform::translation of the entities with a Node
                   \* component: entity -> [xy, z]
    rng,           \* rand::thread_rng(): the draws to come, oldest first
    drawn          \* history: the edges between two nodes that draw_edges last
                   \* found at one (x, y)

bvars == <<pc, graph, current_name, todo, stmt, graph0, scopes, walked,
           parsed, result>>
wvars == <<expr, idents, wpc>>
vvars == <<file, events, sent, started, res_graph, nodes, edges, next_entity,
           highlight, analysis, built, panicked, translation, rng, drawn>>
vars == <<bvars, wvars, vvars>>

-----------------------------------------------------------------------------
(* Bounds *)

\* Top-level statements of a module in Spec.
MaxStmts == 3
\* Call sites of a module in SpecView and SpecReload.
MaxCalls == 3
\* LoadGraph events in SpecReload.
MaxLoads == 2
\* Calls of generate_graph on one source in SpecRebuild.
MaxBuilds == 2
\* Top-level statements of that source.
MaxRebuildStmts == 2
\* Call sites of a module in SpecFrames.
MaxFrameCalls == 1

-----------------------------------------------------------------------------
(* Sequences and maps *)

Range(s) == {s[i] : i \in DOMAIN s}

RECURSIVE Flatten(_)
Flatten(ss) == IF ss = <<>> THEN <<>> ELSE Head(ss) \o Flatten(Tail(ss))

\* Sequences over S of length at most n.
SeqsUpTo(S, n) == UNION {[1..k -> S] : k \in 0..n}

\* All orderings of a finite set, as sequences.
Perms(S) == {p \in [1..Cardinality(S) -> S] : Range(p) = S}

EmptyMap == [k \in {} |-> <<>>]

\* HashMap::insert(k, v)
Insert(m, k, v) == [x \in DOMAIN m \cup {k} |-> IF x = k THEN v ELSE m[x]]

\* HashMap::entry(k).or_default(), for Vec values
OrDefault(m, k) == IF k \in DOMAIN m THEN m ELSE Insert(m, k, <<>>)

-----------------------------------------------------------------------------
(* rustpython_ast::Expr.  Every node has the same shape: kind, id (the     *)
(* identifier of a Name or the attr of an Attribute) and three child       *)
(* lists a, b, c holding the node's fields in the order the AST declares   *)
(* them.  An Option<Expr> is a list of length 0 or 1.                      *)

E(kind, id, a, b, c) == [kind |-> kind, id |-> id, a |-> a, b |-> b, c |-> c]

Name(n) == E("Name", n, <<>>, <<>>, <<>>)
\* func(args, keywords)
Call(func, args, keywords) == E("Call", "", <<func>>, args, keywords)
CallN(n) == Call(Name(n), <<>>, <<>>)
\* value.attr
Attribute(value, attr) == E("Attribute", attr, <<value>>, <<>>, <<>>)
\* BoolOp.values, List.elts, Set.elts, JoinedStr.values, Tuple.elts
SeqKinds == {"BoolOp", "List", "Set", "JoinedStr", "Tuple"}
\* Dict: a = keys (each an Option<Expr>), b = values
Dict(keys, values) == E("Dict", "", keys, values, <<>>)
\* a = <<left>>, b = <<right>>; DictComp: c = the generators' expressions
BinKinds == {"NamedExpr", "BinOp", "DictComp", "Subscript"}
\* a = the operand (Yield: Option); comprehensions: b = the generators' expressions
UnaryKinds == {"UnaryOp", "Lambda", "Await", "Yield", "YieldFrom", "ListComp",
               "SetComp", "GeneratorExp", "Attribute", "Starred"}
\* a = <<test>>, b = <<body>>, c = <<orelse>>
IfExp(test, body, orelse) == E("IfExp", "", <<test>>, <<body>>, <<orelse>>)
\* a = <<left>>, b = comparators
Compare(left, comparators) == E("Compare", "", <<left>>, comparators, <<>>)
\* a = <<value>>, b = format_spec (Option)
FormattedValue(value, spec) == E("FormattedValue", "", <<value>>, spec, <<>>)
\* a = lower, b = upper, c = step (each an Option)
Slice(lower, upper, step) == E("Slice", "", lower, upper, step)

\* keys.into_iter().filter_map(|x| x)
Present(opts) == Flatten(opts)

-----------------------------------------------------------------------------
(* get_call_idents, generate_graph.rs:135-240 *)

\* match *func, lines 138-146
CalleeIdent(func) ==
    IF func.kind = "Attribute" THEN <<func.id>>
    ELSE IF func.kind = "Name" THEN <<func.id>>
    ELSE <<>>

RECURSIVE get_call_idents(_), WalkEach(_)

\* A Call arm that also walks the receiver of an attribute callee and the
\* keyword values.
CallArmWalkingAll(e) ==
    (IF e.a[1].kind = "Attribute" THEN WalkEach(e.a[1].a) ELSE <<>>)
        \o CalleeIdent(e.a[1]) \o WalkEach(e.b) \o WalkEach(e.c)

\* Expr::Call, lines 137-150: the callee, then each positional argument.
CallArm(e) == CalleeIdent(e.a[1]) \o WalkEach(e.b)

\* Expr::Dict, lines 160-167: every value, then every present key.
DictArm(e) == WalkEach(e.b) \o WalkEach(Present(e.a))

\* Expr::Slice, lines 225-237: upper, then lower, then step.
SliceArm(e) == WalkEach(e.b) \o WalkEach(e.a) \o WalkEach(e.c)

\* `for value in values { get_call_idents(value, current) }`
WalkEach(es) ==
    IF es = <<>> THEN <<>> ELSE get_call_idents(Head(es)) \o WalkEach(Tail(es))

get_call_idents(e) ==
    CASE e.kind = "Call" -> CallArm(e)
      [] e.kind \in SeqKinds -> WalkEach(e.a)
      [] e.kind = "Dict" -> DictArm(e)
      [] e.kind \in BinKinds -> WalkEach(e.a) \o WalkEach(e.b)
      [] e.kind \in UnaryKinds -> WalkEach(e.a)
      [] e.kind = "IfExp" -> WalkEach(e.a) \o WalkEach(e.b) \o WalkEach(e.c)
      [] e.kind = "Compare" -> WalkEach(e.a) \o WalkEach(e.b)
      [] e.kind = "FormattedValue" -> WalkEach(e.a) \o WalkEach(e.b)
      [] e.kind = "Slice" -> SliceArm(e)
      [] OTHER -> <<>>

-----------------------------------------------------------------------------
(* build_graph, generate_graph.rs:123-133 *)

\* One iteration of the loop that forgets `graph.entry(ident).or_default()`.
AddIdentNoLeaf(g, func_name, ident) ==
    LET g1 == OrDefault(g, func_name)
    IN  [g1 EXCEPT ![func_name] = Append(@, ident)]

\* One iteration of `for ident in current`, lines 126-132.
AddIdent(g, func_name, ident) ==
    LET g1 == OrDefault(g, func_name)
        g2 == [g1 EXCEPT ![func_name] = Append(@, ident)]
    IN  OrDefault(g2, ident)

RECURSIVE AddIdents(_, _, _)
AddIdents(g, func_name, ids) ==
    IF ids = <<>> THEN g
    ELSE AddIdents(AddIdent(g, func_name, Head(ids)), func_name, Tail(ids))

build_graph(e, func_name, g) == AddIdents(g, func_name, get_call_idents(e))

-----------------------------------------------------------------------------
(* rustpython_ast::Stmt.  kind; name (of a definition); x, y: the          *)
(* statement's expressions; z: expressions no arm binds (an annotation, a  *)
(* decorator); body, handlers, orelse, finalbody: statement lists.  Try    *)
(* keeps the statements of its except handlers in `handlers`.              *)

St(kind, name, x, y, z, body, handlers, orelse, finalbody) ==
    [kind |-> kind, name |-> name, x |-> x, y |-> y, z |-> z, body |-> body,
     handlers |-> handlers, orelse |-> orelse, finalbody |-> finalbody]

Leaf(kind, x, y, z) == St(kind, "", x, y, z, <<>>, <<>>, <<>>, <<>>)
Block(kind, x, y, body, orelse) == St(kind, "", x, y, <<>>, body, <<>>, orelse, <<>>)

ExprStmt(value) == Leaf("Expr", <<value>>, <<>>, <<>>)
\* x = value (Option)
Return(value) == Leaf("Return", value, <<>>, <<>>)
\* x = <<test>>, y = msg (Option)
AssertStmt(test, msg) == Leaf("Assert", <<test>>, msg, <<>>)
\* x = targets, y = <<value>>
Assign(targets, value) == Leaf("Assign", targets, <<value>>, <<>>)
\* x = <<target>>, y = value (Option), z = <<annotation>>
AnnAssign(target, annotation, value) == Leaf("AnnAssign", <<target>>, value, <<annotation>>)
\* x = <<target>>, y = <<value>>
AugAssign(target, value) == Leaf("AugAssign", <<target>>, <<value>>, <<>>)
\* x = targets
Delete(targets) == Leaf("Delete", targets, <<>>, <<>>)
\* x = exc (Option)
Raise(exc) == Leaf("Raise", exc, <<>>, <<>>)
Pass == Leaf("Pass", <<>>, <<>>, <<>>)
\* x = <<target>>, y = <<iter>>
For(target, iter, body, orelse) == Block("For", <<target>>, <<iter>>, body, orelse)
\* x = <<test>>
While(test, body, orelse) == Block("While", <<test>>, <<>>, body, orelse)
If(test, body, orelse) == Block("If", <<test>>, <<>>, body, orelse)
\* x = items; a WithItem is a node with a = <<context_expr>>, b = optional_vars
WithItem(ctx, optional_vars) == E("WithItem", "", <<ctx>>, optional_vars, <<>>)
With(items, body) == Block("With", items, <<>>, body, <<>>)
Try(body, handlers, orelse, finalbody) ==
    St("Try", "", <<>>, <<>>, <<>>, body, handlers, orelse, finalbody)
\* kind "FunctionDef" or "AsyncFunctionDef"
Def(kind, name, body) == St(kind, name, <<>>, <<>>, <<>>, body, <<>>, <<>>, <<>>)
ClassDef(name, body) == St("ClassDef", name, <<>>, <<>>, <<>>, body, <<>>, <<>>, <<>>)

DefKinds == {"FunctionDef", "AsyncFunctionDef"}
IsDef(s) == s.kind \in DefKinds

-----------------------------------------------------------------------------
(* build_graph_from_stmt, generate_graph.rs:40-121: the expressions a      *)
(* statement hands to build_graph, in call order.                          *)

\* `for item in items`, lines 73-78
RECURSIVE ItemExprs(_)
ItemExprs(items) ==
    IF items = <<>> THEN <<>>
    ELSE Head(items).a \o Head(items).b \o ItemExprs(Tail(items))

RECURSIVE StmtExprs(_), BlockExprs(_)
\* `for stmt in body { build_graph_from_stmt(stmt, ...) }`
BlockExprs(ss) ==
    IF ss = <<>> THEN <<>> ELSE StmtExprs(Head(ss)) \o BlockExprs(Tail(ss))

\* A Try arm that also descends into the except handlers.
TryArmWithHandlers(s) ==
    BlockExprs(s.body) \o BlockExprs(s.handlers) \o BlockExprs(s.orelse)
        \o BlockExprs(s.finalbody)

\* Lines 56-71: body, orelse, finalbody; `..` drops the handlers.
TryArm(s) ==
    BlockExprs(s.body) \o BlockExprs(s.orelse) \o BlockExprs(s.finalbody)

StmtExprs(s) ==
    CASE s.kind = "Expr" -> s.x
      [] s.kind = "Return" -> s.x
      [] s.kind = "Assert" -> s.x \o s.y
      [] s.kind = "Try" -> TryArm(s)
      [] s.kind = "With" -> ItemExprs(s.x) \o BlockExprs(s.body)
      [] s.kind = "For" -> s.x \o s.y \o BlockExprs(s.body)
      [] s.kind = "Assign" -> s.x \o s.y
      [] s.kind = "AnnAssign" -> s.x \o s.y
      [] s.kind = "Delete" -> s.x
      [] s.kind = "While" -> s.x \o BlockExprs(s.body)
      [] s.kind = "AugAssign" -> s.x \o s.y
      [] OTHER -> <<>>

-----------------------------------------------------------------------------
(* generate_graph, generate_graph.rs:13-38 *)

\* current_name declared once and only overwritten by a definition.
ScopeNameSticky(s, previous) == IF IsDef(s) THEN s.name ELSE previous

\* Lines 21-25: "..." at every iteration, then the definition's name.
\* `previous` is current_name as the last iteration left it.
ScopeName(s, previous) == IF IsDef(s) THEN s.name ELSE "..."

\* Line 26, for a definition only.
EnterScope(s, g) == IF IsDef(s) THEN Insert(g, s.name, <<>>) ELSE g

\* Lines 27-29 and 32: what the iteration hands to build_graph.
TopLevelExprs(s) == IF IsDef(s) THEN BlockExprs(s.body) ELSE StmtExprs(s)

-----------------------------------------------------------------------------
(* The statements Spec builds modules from: every statement kind at least  *)
(* once, blocks nested four deep, and definitions of both kinds.           *)

BuildNames == {"a", "b"}
X == Name("x")
Subscript(value, slice) == E("Subscript", "", <<value>>, <<slice>>, <<>>)

CallStmts == {ExprStmt(CallN(n)) : n \in BuildNames}

HandledStmts ==
    CallStmts \cup
    { Return(<<>>), Return(<<CallN("a")>>),
      AssertStmt(CallN("a"), <<>>), AssertStmt(CallN("a"), <<CallN("b")>>),
      Assign(<<X>>, CallN("b")),
      Assign(<<Subscript(CallN("a"), X)>>, CallN("b")),
      AnnAssign(X, CallN("b"), <<CallN("a")>>),
      AugAssign(X, CallN("a")),
      Delete(<<Subscript(CallN("b"), X)>>),
      For(X, CallN("a"), <<ExprStmt(CallN("b"))>>, <<ExprStmt(CallN("a"))>>),
      While(CallN("b"), <<ExprStmt(CallN("a"))>>, <<>>),
      With(<<WithItem(CallN("a"), <<X>>)>>, <<ExprStmt(CallN("b"))>>),
      Try(<<ExprStmt(CallN("a"))>>, <<ExprStmt(CallN("b"))>>, <<>>,
          <<ExprStmt(CallN("a"))>>) }

\* try: with x: for x in x: while x: n()
Nested(n) ==
    Try(<<With(<<WithItem(X, <<>>)>>,
               <<For(X, X, <<While(X, <<ExprStmt(CallN(n))>>, <<>>)>>, <<>>)>>)>>,
        <<>>, <<>>, <<>>)

NestedStmts == {Nested(n) : n \in BuildNames}

UnhandledStmts ==
    { If(CallN("a"), <<ExprStmt(CallN("b"))>>, <<ExprStmt(CallN("a"))>>),
      ClassDef("a", <<ExprStmt(CallN("b"))>>),
      Block("Match", <<CallN("a")>>, <<>>, <<ExprStmt(CallN("b"))>>, <<>>),
      Raise(<<CallN("a")>>),
      Leaf("Import", <<>>, <<>>, <<>>),
      Pass, Leaf("Break", <<>>, <<>>, <<>>), Leaf("Global", <<>>, <<>>, <<>>),
      Block("AsyncFor", <<X>>, <<CallN("a")>>, <<ExprStmt(CallN("b"))>>, <<>>),
      Block("AsyncWith", <<WithItem(CallN("a"), <<>>)>>, <<>>,
            <<ExprStmt(CallN("b"))>>, <<>>) }

\* A definition inside a body is one more unhandled statement.
NestedDefs == {Def("FunctionDef", "b", <<ExprStmt(CallN("a"))>>)}

BodyStmts == HandledStmts \cup NestedStmts \cup UnhandledStmts \cup NestedDefs

Bodies ==
    {<<>>} \cup {<<s>> : s \in BodyStmts}
           \cup {<<s, t>> : s \in CallStmts, t \in CallStmts}

AsyncBodies == {<<>>} \cup {<<s>> : s \in CallStmts \cup NestedStmts}

\* Every body under `a`; the short bodies under `b` and under async
\* definitions of either name.
TopDefs ==
    {Def("FunctionDef", "a", body) : body \in Bodies} \cup
    {Def(k, n, body) : k \in DefKinds, n \in BuildNames, body \in AsyncBodies}

TopStmts == HandledStmts \cup NestedStmts \cup UnhandledStmts \cup TopDefs

-----------------------------------------------------------------------------
(* Values of the variables a specification does not use. *)

BuildIdle ==
    /\ pc = "idle" /\ graph = EmptyMap /\ current_name = "" /\ todo = <<>>
    /\ stmt = <<>> /\ graph0 = EmptyMap /\ scopes = <<>> /\ walked = EmptyMap
    /\ parsed = <<>> /\ result = <<>>

WalkIdle == expr = Name("x") /\ idents = <<>> /\ wpc = "idle"

NoAnalysis == [key |-> "", out |-> <<>>, on |-> [nodes |-> <<>>, edges |-> <<>>]]

ViewIdle ==
    /\ file = <<>> /\ events = 0 /\ sent = 0 /\ started = FALSE
    /\ res_graph = [nodes |-> <<>>, edges |-> <<>>]
    /\ nodes = EmptyMap /\ edges = EmptyBag /\ next_entity = 1
    /\ highlight = EmptyMap /\ analysis = NoAnalysis
    /\ built = <<>> /\ panicked = FALSE
    /\ translation = EmptyMap /\ rng = <<"p">> /\ drawn = {}

-----------------------------------------------------------------------------
(* Spec: generate_graph *)

Init ==
    /\ pc = "parse" /\ graph = EmptyMap /\ current_name = "" /\ todo = <<>>
    /\ stmt = <<>> /\ graph0 = EmptyMap /\ scopes = <<>> /\ walked = EmptyMap
    /\ parsed = <<>> /\ result = <<>>
    /\ WalkIdle /\ ViewIdle

\* The errors rustpython_parser::parse returns.
ParseErrors == {"invalid syntax", "unexpected EOF"}

\* `?` in a function returning anyhow::Result: anyhow::Error::from(e), an
\* error that wraps e and carries no context.
AnyhowFrom(e) == [inner |-> e, context |-> <<>>]

\* Line 14: the parser returns a module.
ParseOk ==
    /\ pc = "parse"
    /\ pc' = "loop"
    /\ parsed' = <<"Ok">>
    /\ UNCHANGED <<graph, current_name, todo, stmt, graph0, scopes, walked, result>>
    /\ UNCHANGED <<wvars, vvars>>

\* A parse error answered with an empty graph.
ParseErrorFallback ==
    /\ pc = "parse"
    /\ pc' = "done"
    /\ \E e \in ParseErrors :
        /\ parsed' = <<"Err", e>>
        /\ result' = <<"Ok", graph>>
    /\ UNCHANGED <<graph, current_name, todo, stmt, graph0, scopes, walked>>
    /\ UNCHANGED <<wvars, vvars>>

\* Line 14: the parser returns an error and `?` returns it.
ParseError ==
    /\ pc = "parse"
    /\ pc' = "error"
    /\ \E e \in ParseErrors :
        /\ parsed' = <<"Err", e>>
        /\ result' = <<"Err", AnyhowFrom(e)>>
    /\ UNCHANGED <<graph, current_name, todo, stmt, graph0, scopes, walked>>
    /\ UNCHANGED <<wvars, vvars>>

\* Lines 20-34 up to the first build_graph call: the next statement of
\* module.body, whatever it is.
NextStmt ==
    /\ pc = "loop" /\ todo = <<>> /\ Len(scopes) < MaxStmts
    /\ \E s \in TopStmts :
        /\ current_name' = ScopeName(s, current_name)
        /\ graph' = EnterScope(s, graph)
        /\ todo' = TopLevelExprs(s)
        /\ stmt' = <<s>>
        /\ graph0' = graph
        /\ scopes' = Append(scopes, current_name')
    /\ UNCHANGED <<pc, walked, parsed, result>>
    /\ UNCHANGED <<wvars, vvars>>

\* Lines 123-133: one call of build_graph.
BuildGraph ==
    /\ pc = "loop" /\ todo # <<>>
    /\ graph' = build_graph(Head(todo), current_name, graph)
    /\ walked' = [OrDefault(walked, current_name) EXCEPT
                     ![current_name] = @ \o get_call_idents(Head(todo))]
    /\ todo' = Tail(todo)
    /\ UNCHANGED <<pc, current_name, stmt, graph0, scopes, parsed, result>>
    /\ UNCHANGED <<wvars, vvars>>

\* Line 37: module.body is exhausted.
ReturnGraph ==
    /\ pc = "loop" /\ todo = <<>>
    /\ pc' = "done"
    /\ result' = <<"Ok", graph>>
    /\ UNCHANGED <<graph, current_name, todo, stmt, graph0, scopes, walked, parsed>>
    /\ UNCHANGED <<wvars, vvars>>

Next == ParseOk \/ ParseError \/ NextStmt \/ BuildGraph \/ ReturnGraph

Spec == Init /\ [][Next]_vars

-----------------------------------------------------------------------------
(* Properties of generate_graph *)

SeqAt(g, k) == IF k \in DOMAIN g THEN g[k] ELSE <<>>

IsSuffix(t, u) ==
    /\ Len(t) <= Len(u)
    /\ SubSeq(u, Len(u) - Len(t) + 1, Len(u)) = t

Closed(g) == \A k \in DOMAIN g : \A i \in DOMAIN g[k] : g[k][i] \in DOMAIN g

\* C1: closure.  In every state of a build, so after every build_graph call
\* and in the graph returned, every name in any key's outgoing sequence is a
\* key of the graph.
C1_Closure == Closed(graph)

\* A returned graph of a module with module-level calls, a definition given
\* twice, and a referenced name that is never defined.
C1_Witness ==
    /\ pc = "done"
    /\ "..." \in DOMAIN graph
    /\ \E i, j \in DOMAIN scopes : i < j /\ scopes[i] = scopes[j] /\ scopes[i] # "..."
    /\ \E k \in DOMAIN graph :
        /\ k \notin Range(scopes)
        /\ \E f \in DOMAIN graph : k \in Range(graph[f])

\* C6: edge materialization is lossless.  In the graph returned, the
\* outgoing sequence of every scope S is the concatenation, in processing
\* order, of all names the walker produced under S.
C6_Lossless ==
    pc = "done" => \A f \in DOMAIN walked : SeqAt(graph, f) = walked[f]

\* The call references of a top-level statement: what the walkers find in
\* the statement, or in the body of a definition.
Found(s) == WalkEach(TopLevelExprs(s))

\* The scope a top-level statement belongs to.
ScopeOf(s) == IF s.kind \in {"FunctionDef", "AsyncFunctionDef"} THEN s.name ELSE "..."

StmtComplete == pc \in {"loop", "done"} /\ stmt # <<>> /\ todo = <<>>

\* C9: scope attribution.  When a top-level statement has been processed,
\* the call references found in it end the sequence of its scope (the name
\* of the definition, "..." for anything else), no other key's sequence has
\* changed (so nothing went to a preceding definition), and a definition's
\* name is a key.
C9_ScopeAttribution ==
    StmtComplete =>
        LET s == stmt[1]
            f == ScopeOf(s)
        IN  /\ IsSuffix(Found(s), SeqAt(graph, f))
            /\ \A k \in DOMAIN graph \ {f} : graph[k] = SeqAt(graph0, k)
            /\ IsDef(s) => f \in DOMAIN graph

\* A module-level statement with calls, processed right after a definition
\* whose calls sit four blocks deep.
C9_Witness ==
    /\ StmtComplete
    /\ ~IsDef(stmt[1]) /\ Found(stmt[1]) # <<>>
    /\ Len(scopes) >= 2 /\ scopes[Len(scopes) - 1] \in BuildNames
    /\ \E n \in BuildNames :
        /\ n = scopes[Len(scopes) - 1]
        /\ n \in DOMAIN graph /\ graph[n] # <<>>
    /\ "..." \in DOMAIN graph /\ graph["..."] = Found(stmt[1])

-----------------------------------------------------------------------------
(* SpecWalk: build_graph on one expression.  The expressions: every kind   *)
(* get_call_idents matches, with calls in every child position.  Calls to  *)
(* "r" sit only inside callees, calls to "k" only in keyword values and    *)
(* calls to "g" only in comprehension generators.                          *)

WalkLeaves == {X, CallN("a"), CallN("b")}
WalkOpts == {<<>>} \cup {<<l>> : l \in WalkLeaves}

Callees ==
    {Name("a"), Name("b")} \cup
    {Attribute(recv, "c") : recv \in {X, CallN("r"), Attribute(CallN("r"), "d")}} \cup
    {Subscript(CallN("r"), X), CallN("r"), E("Lambda", "", <<CallN("r")>>, <<>>, <<>>)}

CallArgs == SeqsUpTo(WalkLeaves \cup {Call(Name("b"), <<CallN("a")>>, <<>>)}, 2)

CallExprs ==
    {Call(f, args, kw) : f \in Callees, args \in CallArgs,
                         kw \in {<<>>, <<CallN("k")>>}}

Comprehensions == {"ListComp", "SetComp", "GeneratorExp"}

WalkExprs ==
    CallExprs \cup {X, E("Constant", "", <<>>, <<>>, <<>>)} \cup
    {E(k, "", vs, <<>>, <<>>) : k \in SeqKinds, vs \in SeqsUpTo(WalkLeaves, 2)} \cup
    {Dict(<<>>, <<>>)} \cup
    {Dict(<<k>>, <<v>>) : k \in WalkOpts, v \in WalkLeaves} \cup
    {Dict(<<<<CallN("a")>>, k>>, <<CallN("b"), v>>) : k \in WalkOpts, v \in WalkLeaves} \cup
    {E(k, "", <<l>>, <<r>>, IF k = "DictComp" THEN <<CallN("g")>> ELSE <<>>) :
        k \in BinKinds, l \in WalkLeaves, r \in WalkLeaves} \cup
    {E(k, IF k = "Attribute" THEN "c" ELSE "", <<l>>,
       IF k \in Comprehensions THEN <<CallN("g")>> ELSE <<>>, <<>>) :
        k \in UnaryKinds, l \in WalkLeaves} \cup
    {E("Yield", "", <<>>, <<>>, <<>>)} \cup
    {IfExp(t, b, o) : t \in WalkLeaves, b \in WalkLeaves, o \in WalkLeaves} \cup
    {Compare(l, cs) : l \in WalkLeaves, cs \in SeqsUpTo(WalkLeaves, 2) \ {<<>>}} \cup
    {FormattedValue(v, sp) : v \in WalkLeaves, sp \in WalkOpts} \cup
    {Slice(lo, up, st) : lo \in WalkOpts, up \in WalkOpts, st \in WalkOpts}

InitWalk ==
    /\ expr \in WalkExprs /\ idents = <<>> /\ wpc = "init"
    /\ pc = "idle" /\ graph = EmptyMap /\ current_name \in {"...", "f"}
    /\ todo = <<>> /\ stmt = <<>> /\ graph0 = EmptyMap /\ scopes = <<>>
    /\ walked = EmptyMap /\ parsed = <<>> /\ result = <<>>
    /\ ViewIdle

\* build_graph, lines 124-125: the walker fills `current`.
WalkExpr ==
    /\ wpc = "init"
    /\ idents' = get_call_idents(expr)
    /\ wpc' = "walked"
    /\ UNCHANGED <<expr, bvars, vvars>>

\* build_graph, lines 126-132: every name becomes an edge and a node.
Materialize ==
    /\ wpc = "walked"
    /\ graph' = AddIdents(graph, current_name, idents)
    /\ wpc' = "built"
    /\ UNCHANGED <<pc, current_name, todo, stmt, graph0, scopes, walked,
                   parsed, result>>
    /\ UNCHANGED <<expr, idents, vvars>>

NextWalk == WalkExpr \/ Materialize

SpecWalk == InitWalk /\ [][NextWalk]_vars

-----------------------------------------------------------------------------
(* Properties of get_call_idents *)

\* The recorded call sites of an expression in the order of the source
\* text.  Python writes a mapping entry as key: value, a slice as
\* lower:upper:step and a ternary as body if test else orelse; every other
\* node's children appear in the text in the order of its fields.
RECURSIVE TextOrder(_), TextEach(_), TextEntries(_, _)
TextEach(es) ==
    IF es = <<>> THEN <<>> ELSE TextOrder(Head(es)) \o TextEach(Tail(es))

TextEntries(keys, values) ==
    IF values = <<>> THEN <<>>
    ELSE TextEach(Head(keys)) \o TextOrder(Head(values))
            \o TextEntries(Tail(keys), Tail(values))

TextOrder(e) ==
    CASE e.kind = "Call" ->
            (IF e.a[1].kind \in {"Attribute", "Name"} THEN <<e.a[1].id>> ELSE <<>>)
                \o TextEach(e.b)
      [] e.kind \in SeqKinds -> TextEach(e.a)
      [] e.kind = "Dict" -> TextEntries(e.a, e.b)
      [] e.kind \in BinKinds -> TextEach(e.a) \o TextEach(e.b)
      [] e.kind \in UnaryKinds -> TextEach(e.a)
      [] e.kind = "IfExp" -> TextEach(e.b) \o TextEach(e.a) \o TextEach(e.c)
      [] e.kind = "Compare" -> TextEach(e.a) \o TextEach(e.b)
      [] e.kind = "FormattedValue" -> TextEach(e.a) \o TextEach(e.b)
      [] e.kind = "Slice" -> TextEach(e.a) \o TextEach(e.b) \o TextEach(e.c)
      [] OTHER -> <<>>

\* C7: source order.  The names an expression contributes to its scope's
\* sequence appear in the order of their call sites in the source text.
C7_SourceOrder ==
    wpc = "built" =>
        /\ idents = TextOrder(expr)
        /\ SeqAt(graph, current_name) = TextOrder(expr)

\* C10: call-expression resolution.  For a call the walker records the
\* attribute name of an attribute callee or the name of a bare-name callee,
\* and nothing for any other callee, followed by what it finds in each
\* positional argument in order; nothing from inside the callee or from a
\* keyword value is recorded or becomes a node.
C10_CallResolution ==
    (wpc \in {"walked", "built"} /\ expr.kind = "Call") =>
        LET func == expr.a[1]
            args == expr.b
            head == IF func.kind \in {"Attribute", "Name"} THEN <<func.id>> ELSE <<>>
        IN  /\ idents = head \o Flatten([i \in DOMAIN args |-> get_call_idents(args[i])])
            /\ Range(idents) \cap {"r", "k", "x"} = {}
            /\ wpc = "built" => DOMAIN graph \cap {"r", "k", "x"} = {}

\* r().c(a(), k=k()) contributes c then a.
C10_Witness ==
    /\ wpc = "built"
    /\ expr = Call(Attribute(CallN("r"), "c"), <<CallN("a")>>, <<CallN("k")>>)
    /\ graph[current_name] = <<"c", "a">>
    /\ DOMAIN graph = {current_name, "c", "a"}

-----------------------------------------------------------------------------
(* generate_graph as load_graph calls it (visualize.rs:115): the whole     *)
(* loop of generate_graph.rs:18-37 over a module that parses.              *)

RECURSIVE BuildAll(_, _, _)
BuildAll(es, func_name, g) ==
    IF es = <<>> THEN g
    ELSE BuildAll(Tail(es), func_name, build_graph(Head(es), func_name, g))

RECURSIVE GenerateFrom(_, _, _)
GenerateFrom(body, previous, g) ==
    IF body = <<>> THEN g
    ELSE LET s == Head(body)
             name == ScopeName(s, previous)
         IN  GenerateFrom(Tail(body), name,
                          BuildAll(TopLevelExprs(s), name, EnterScope(s, g)))

generate_graph(module) == GenerateFrom(module, "", EmptyMap)

-----------------------------------------------------------------------------
(* petgraph::Graph<Entity, ()> as the viewer uses it.  Node indices are    *)
(* 1..Len(nodes) in the order of add_node; an edge is <<source, target>>.  *)
(* Each node keeps its edges in a list that add_edge prepends to, so the   *)
(* neighbours of a node come newest edge first.                            *)

Reverse(q) == [i \in 1..Len(q) |-> q[Len(q) + 1 - i]]

NodeIndices(g) == 1..Len(g.nodes)

add_node(g, weight) == [g EXCEPT !.nodes = Append(@, weight)]
add_edge(g, a, b) == [g EXCEPT !.edges = Append(@, <<a, b>>)]

RECURSIVE EdgesFrom(_, _), EdgesInto(_, _)
EdgesFrom(es, n) ==
    IF es = <<>> THEN <<>>
    ELSE (IF Head(es)[1] = n THEN <<Head(es)[2]>> ELSE <<>>) \o EdgesFrom(Tail(es), n)
EdgesInto(es, n) ==
    IF es = <<>> THEN <<>>
    ELSE (IF Head(es)[2] = n THEN <<Head(es)[1]>> ELSE <<>>) \o EdgesInto(Tail(es), n)

\* graph.neighbors(n), graph.neighbors_directed(n, Outgoing)
OutNeighbors(g, n) == Reverse(EdgesFrom(g.edges, n))
\* graph.neighbors_directed(n, Incoming): self-loops and parallel edges count
InNeighbors(g, n) == Reverse(EdgesInto(g.edges, n))

\* The loop of Bfs::next and Dfs::next over graph.neighbors(node): every
\* successor not yet discovered is marked (Bfs) and pushed.
RECURSIVE BfsVisit(_, _, _)
BfsVisit(succs, queue, discovered) ==
    IF succs = <<>> THEN [queue |-> queue, discovered |-> discovered]
    ELSE IF Head(succs) \in discovered
         THEN BfsVisit(Tail(succs), queue, discovered)
         ELSE BfsVisit(Tail(succs), Append(queue, Head(succs)),
                       discovered \cup {Head(succs)})

\* Bfs::new(&graph, start).iter(&graph).collect()
RECURSIVE BfsRun(_, _, _, _)
BfsRun(g, queue, discovered, out) ==
    IF queue = <<>> THEN out
    ELSE LET node == Head(queue)
             v == BfsVisit(OutNeighbors(g, node), Tail(queue), discovered)
         IN  BfsRun(g, v.queue, v.discovered, Append(out, node))

Bfs(g, start) == BfsRun(g, <<start>>, {start}, <<>>)

-----------------------------------------------------------------------------
(* graph_components, visualize.rs:496-510 *)

RECURSIVE ComponentsFrom(_, _, _)
ComponentsFrom(g, node, components) ==
    IF node > Len(g.nodes) THEN components
    ELSE IF \E i \in DOMAIN components : node \in Range(components[i])
         THEN ComponentsFrom(g, node + 1, components)
         ELSE ComponentsFrom(g, node + 1, Append(components, Bfs(g, node)))

graph_components(g) == ComponentsFrom(g, 1, <<>>)

-----------------------------------------------------------------------------
(* petgraph::algo::kosaraju_scc, called at visualize.rs:481 *)

\* `for succ in graph.neighbors(nx)`: push what is not discovered.
RECURSIVE PushUndiscovered(_, _, _)
PushUndiscovered(succs, stack, discovered) ==
    IF succs = <<>> THEN stack
    ELSE PushUndiscovered(Tail(succs),
                          IF Head(succs) \in discovered THEN stack
                          ELSE Append(stack, Head(succs)),
                          discovered)

\* DfsPostOrder::next over Reversed(g), run until the stack is empty; the
\* top of the stack is its last element.
RECURSIVE PostOrderRun(_, _, _, _, _)
PostOrderRun(g, stack, discovered, finished, order) ==
    IF stack = <<>>
    THEN [discovered |-> discovered, finished |-> finished, order |-> order]
    ELSE LET nx == stack[Len(stack)]
         IN  IF nx \notin discovered
             THEN PostOrderRun(g,
                      PushUndiscovered(InNeighbors(g, nx), stack, discovered \cup {nx}),
                      discovered \cup {nx}, finished, order)
             ELSE IF nx \notin finished
                  THEN PostOrderRun(g, SubSeq(stack, 1, Len(stack) - 1), discovered,
                                    finished \cup {nx}, Append(order, nx))
                  ELSE PostOrderRun(g, SubSeq(stack, 1, Len(stack) - 1), discovered,
                                    finished, order)

\* First phase: finishing times of a depth-first pass over the reversed graph.
RECURSIVE FinishOrderFrom(_, _, _)
FinishOrderFrom(g, i, st) ==
    IF i > Len(g.nodes) THEN st.order
    ELSE IF i \in st.discovered THEN FinishOrderFrom(g, i + 1, st)
         ELSE FinishOrderFrom(g, i + 1,
                  PostOrderRun(g, <<i>>, st.discovered, st.finished, st.order))

FinishOrder(g) ==
    FinishOrderFrom(g, 1, [discovered |-> {}, finished |-> {}, order |-> <<>>])

\* Dfs::next over g, run until the stack is empty.
RECURSIVE DfsRun(_, _, _, _)
DfsRun(g, stack, discovered, out) ==
    IF stack = <<>> THEN [discovered |-> discovered, out |-> out]
    ELSE LET node == stack[Len(stack)]
             rest == SubSeq(stack, 1, Len(stack) - 1)
         IN  IF node \in discovered THEN DfsRun(g, rest, discovered, out)
             ELSE DfsRun(g,
                      PushUndiscovered(OutNeighbors(g, node), rest, discovered \cup {node}),
                      discovered \cup {node}, Append(out, node))

\* Second phase: one depth-first pass per undiscovered node, in decreasing
\* finishing time; `roots` is finish_order reversed.
RECURSIVE SccsFrom(_, _, _, _)
SccsFrom(g, roots, discovered, sccs) ==
    IF roots = <<>> THEN sccs
    ELSE IF Head(roots) \in discovered
         THEN SccsFrom(g, Tail(roots), discovered, sccs)
         ELSE LET r == DfsRun(g, <<Head(roots)>>, discovered, <<>>)
              IN  SccsFrom(g, Tail(roots), r.discovered, Append(sccs, r.out))

\* Both passes over g itself: the first pass forgets Reversed.
kosaraju_scc_unreversed(g) ==
    LET all == [i \in NodeIndices(g) |-> i]
    IN  SccsFrom(g, Reverse(DfsRun(g, Reverse(all), {}, <<>>).out), {}, <<>>)

kosaraju_scc(g) == SccsFrom(g, Reverse(FinishOrder(g)), {}, <<>>)

-----------------------------------------------------------------------------
(* Inline candidates, visualize.rs:444-465 *)

\* The incoming count taken over distinct callers.
IsInlineCandidateDedup(g, node) ==
    ~ ( Cardinality(Range(InNeighbors(g, node))) # 1
        \/ (OutNeighbors(g, node) # <<>> /\ Head(OutNeighbors(g, node)) = node) )

\* Lines 446-459: skipped when the incoming count is not 1 or when the
\* first neighbour the node yields is the node itself.
IsInlineCandidate(g, node) ==
    ~ ( Len(InNeighbors(g, node)) # 1
        \/ (OutNeighbors(g, node) # <<>> /\ Head(OutNeighbors(g, node)) = node) )

RECURSIVE InlineFrom(_, _)
InlineFrom(g, node) ==
    IF node > Len(g.nodes) THEN <<>>
    ELSE (IF IsInlineCandidate(g, node) THEN <<node>> ELSE <<>>)
            \o InlineFrom(g, node + 1)

InlineCandidates(g) == InlineFrom(g, 1)

-----------------------------------------------------------------------------
(* The files the viewer loads: modules of top-level definitions a, b, c    *)
(* in that order, any of them absent, whose bodies are calls to a, b, c;   *)
(* at most MaxCalls call sites in the module.                              *)

ViewNames == {"a", "b", "c"}
NameOrder == <<"a", "b", "c">>

CallBody(callees) == [i \in DOMAIN callees |-> ExprStmt(CallN(callees[i]))]

RECURSIVE DefsOf(_, _)
DefsOf(order, bodies) ==
    IF order = <<>> THEN <<>>
    ELSE (IF Head(order) \in DOMAIN bodies
          THEN <<Def("FunctionDef", Head(order), CallBody(bodies[Head(order)]))>>
          ELSE <<>>) \o DefsOf(Tail(order), bodies)

RECURSIVE TotalLen(_, _)
TotalLen(order, bodies) ==
    IF order = <<>> THEN 0
    ELSE (IF Head(order) \in DOMAIN bodies THEN Len(bodies[Head(order)]) ELSE 0)
            + TotalLen(Tail(order), bodies)

\* The bodies of the definitions named in `order`, any of them absent, with
\* at most maxCalls call sites between them.
RECURSIVE BodiesWith(_, _)
BodiesWith(order, maxCalls) ==
    IF order = <<>> THEN {EmptyMap}
    ELSE BodiesWith(Tail(order), maxCalls)
            \cup UNION {{Insert(rest, Head(order), body) :
                            rest \in BodiesWith(Tail(order), maxCalls - Len(body))} :
                        body \in SeqsUpTo(ViewNames, maxCalls)}

ModulesWith(maxCalls) ==
    {DefsOf(NameOrder, bodies) :
        bodies \in {b \in BodiesWith(NameOrder, maxCalls) :
                        /\ DOMAIN b # {}
                        /\ TotalLen(NameOrder, b) <= maxCalls}}

ViewModules == ModulesWith(MaxCalls)

-----------------------------------------------------------------------------
(* load_graph, visualize.rs:98-165 *)

\* Lines 118-152 for one key: a fresh entity becomes a node of NodeGraph.
\* `w` holds the resource, the queued spawns and the next entity id.  The
\* entity's Transform is from_xyz(x, y, i): x and y the generator's next
\* draw (one spot for the pair), i the key's index in this enumeration.
RECURSIVE SpawnNodes(_, _)
SpawnNodes(order, w) ==
    IF order = <<>> THEN w
    ELSE SpawnNodes(Tail(order),
            [w EXCEPT !.g = add_node(@, w.next),
                      !.label = Insert(@, w.next, Head(order)),
                      !.at = Insert(@, w.next,
                                [xy |-> Head(w.rng),
                                 z |-> Cardinality(DOMAIN w.id_lookups)]),
                      !.rng = Append(Tail(@), Head(@)),
                      !.id_lookups = Insert(@, Head(order), Len(w.g.nodes) + 1),
                      !.next = @ + 1])

\* Lines 159-162: one Edge entity and one edge of NodeGraph per neighbour.
RECURSIVE SpawnEdges(_, _, _)
SpawnEdges(id, neighbor_ids, w) ==
    IF neighbor_ids = <<>> THEN w
    ELSE SpawnEdges(id, Tail(neighbor_ids),
            [w EXCEPT !.g = add_edge(@, id, Head(neighbor_ids)),
                      !.edges = @ (+) SetToBag({<<id, Head(neighbor_ids)>>})])

\* Lines 153-163: the Node component and the edges of every key, in the
\* HashMap's iteration order.
RECURSIVE InsertNodes(_, _, _)
InsertNodes(order, built_graph, w) ==
    IF order = <<>> THEN w
    ELSE LET id == w.id_lookups[Head(order)]
             neighbors == built_graph[Head(order)]
             neighbor_ids == [i \in DOMAIN neighbors |-> w.id_lookups[neighbors[i]]]
             w1 == [w EXCEPT !.nodes = Insert(@, w.g.nodes[id],
                        [idx |-> id, nbrs |-> neighbor_ids, label |-> w.label[w.g.nodes[id]]])]
         IN  InsertNodes(Tail(order), built_graph, SpawnEdges(id, neighbor_ids, w1))

\* The body of `for _ in ev_load_graph.read()` for one event.  `order` is
\* the iteration order of the HashMap just built, the same in both loops.
LoadOne(built_graph, order, w) ==
    InsertNodes(order, built_graph,
                SpawnNodes(order, [w EXCEPT !.id_lookups = EmptyMap]))

RECURSIVE LoadEach(_, _, _)
LoadEach(built_graph, orders, w) ==
    IF orders = <<>> THEN w
    ELSE LoadEach(built_graph, Tail(orders), LoadOne(built_graph, Head(orders), w))

Restrict(m, D) == [k \in DOMAIN m \cap D |-> m[k]]
Merge(m, n) == [k \in DOMAIN m \cup DOMAIN n |-> IF k \in DOMAIN n THEN n[k] ELSE m[k]]

\* One run of the system with unread events.  Every event despawns the
\* entities the query sees, which are those with a Node component when the
\* system started; the resource is written at once, the commands apply when
\* the system ends.
LoadGraphSys ==
    /\ ~panicked /\ events > 0
    /\ \E built_graph \in {generate_graph(file)} :
       \E orders \in [1..events -> Perms(DOMAIN built_graph)] :
       \E w \in {LoadEach(built_graph, orders,
                    [g |-> res_graph, nodes |-> EmptyMap, label |-> EmptyMap,
                     edges |-> EmptyBag, id_lookups |-> EmptyMap,
                     next |-> next_entity, at |-> EmptyMap, rng |-> rng])} :
            /\ res_graph' = w.g
            /\ nodes' = w.nodes
            /\ translation' = w.at
            /\ rng' = w.rng
            /\ edges' = edges (+) w.edges
            /\ next_entity' = w.next
            /\ highlight' = Restrict(highlight, DOMAIN highlight \ DOMAIN nodes)
            /\ built' = <<built_graph>>
    /\ events' = 0
    /\ UNCHANGED <<file, sent, started, analysis, panicked, drawn>>
    /\ UNCHANGED <<bvars, wvars>>

\* setup, lines 93-96, in the Startup schedule.
Setup ==
    /\ ~started
    /\ started' = TRUE
    /\ events' = events + 1
    /\ sent' = sent + 1
    /\ UNCHANGED <<file, res_graph, nodes, edges, next_entity, highlight,
                   analysis, built, panicked, translation, rng, drawn>>
    /\ UNCHANGED <<bvars, wvars>>

-----------------------------------------------------------------------------
(* graph_highlights, visualize.rs:422-494 *)

Keys == {"R", "1", "2", "3"}

\* The arm the match at lines 438-493 takes.
Arm(pressed) ==
    IF "1" \in pressed THEN "1"
    ELSE IF "2" \in pressed THEN "2"
    ELSE IF "3" \in pressed THEN "3"
    ELSE "R"

\* What the arm computes: the nodes, or the components, it colours.
Analyse(arm, g) ==
    CASE arm = "1" -> <<InlineCandidates(g)>>
      [] arm = "2" -> graph_components(g)
      [] arm = "3" -> kosaraju_scc(g)
      [] OTHER -> <<>>

Colour(kind, n) == <<kind, n>>

\* `commands.entity(node).insert(Highlight(color))` for every node of every
\* component, in order: a later insert replaces an earlier one.
RECURSIVE Paint(_, _, _, _, _)
Paint(kind, out, i, g, h) ==
    IF i > Len(out) THEN h
    ELSE Paint(kind, out, i + 1, g,
               Merge(h, [e \in {g.nodes[n] : n \in Range(out[i])} |-> Colour(kind, i)]))

\* The arms some non-empty set of just-pressed keys selects.
Arms == {Arm(pressed) : pressed \in SUBSET Keys \ {{}}}

\* One run with at least one of R, 1, 2, 3 just pressed.  Commands::entity
\* panics for an entity that no longer exists.
GraphHighlights ==
    /\ ~panicked /\ started
    /\ \E arm \in Arms :
        IF \E n \in NodeIndices(res_graph) : res_graph.nodes[n] \notin DOMAIN nodes
        THEN /\ panicked' = TRUE
             /\ UNCHANGED <<highlight, analysis>>
        ELSE \E out \in {Analyse(arm, res_graph)} :
             LET base == [e \in Range(res_graph.nodes) |-> Colour("base", 0)]
             IN  /\ analysis' = [key |-> arm, out |-> out, on |-> res_graph]
                 /\ highlight' = Paint(arm, out, 1, res_graph, Merge(highlight, base))
                 /\ UNCHANGED panicked
    /\ UNCHANGED <<file, events, sent, started, res_graph, nodes, edges,
                   next_entity, built, translation, rng, drawn>>
    /\ UNCHANGED <<bvars, wvars>>

-----------------------------------------------------------------------------
(* SpecView: the app as src/ runs it.  Only setup sends LoadGraph.         *)

InitView ==
    /\ file \in ViewModules
    /\ events = 0 /\ sent = 0 /\ started = FALSE
    /\ res_graph = [nodes |-> <<>>, edges |-> <<>>]
    /\ nodes = EmptyMap /\ edges = EmptyBag /\ next_entity = 1
    /\ highlight = EmptyMap /\ analysis = NoAnalysis
    /\ built = <<>> /\ panicked = FALSE
    /\ translation = EmptyMap /\ rng = <<"p">> /\ drawn = {}
    /\ BuildIdle /\ WalkIdle

NextView == Setup \/ LoadGraphSys \/ GraphHighlights

SpecView == InitView /\ [][NextView]_vars

-----------------------------------------------------------------------------
(* SpecReload: SpecView with reload requests.  Nothing in src/ sends a     *)
(* second LoadGraph; load_graph is written for any number of them.         *)

\* One definition, `a`, with at most one call.
ReloadModules == {m \in ModulesWith(1) : Len(m) = 1 /\ m[1].name = "a"}

InitReload ==
    /\ file \in ReloadModules
    /\ events = 0 /\ sent = 0 /\ started = FALSE
    /\ res_graph = [nodes |-> <<>>, edges |-> <<>>]
    /\ nodes = EmptyMap /\ edges = EmptyBag /\ next_entity = 1
    /\ highlight = EmptyMap /\ analysis = NoAnalysis
    /\ built = <<>> /\ panicked = FALSE
    /\ translation = EmptyMap /\ rng = <<"p">> /\ drawn = {}
    /\ BuildIdle /\ WalkIdle

\* A reload request: ev_load_graph.send(LoadGraph) from outside setup.
SendLoadGraph ==
    /\ ~panicked /\ started /\ sent < MaxLoads
    /\ events' = events + 1
    /\ sent' = sent + 1
    /\ UNCHANGED <<file, started, res_graph, nodes, edges, next_entity, highlight,
                   analysis, built, panicked, translation, rng, drawn>>
    /\ UNCHANGED <<bvars, wvars>>

\* The watched file changes on disk.
EditFile ==
    /\ ~panicked
    /\ file' \in ReloadModules \ {file}
    /\ UNCHANGED <<events, sent, started, res_graph, nodes, edges, next_entity,
                   highlight, analysis, built, panicked, translation, rng, drawn>>
    /\ UNCHANGED <<bvars, wvars>>

NextReload == Setup \/ LoadGraphSys \/ GraphHighlights \/ SendLoadGraph \/ EditFile

SpecReload == InitReload /\ [][NextReload]_vars

-----------------------------------------------------------------------------
(* Properties of the analyses *)

\* The nodes reachable from the set S along the edges in `es`.
RECURSIVE ReachFrom(_, _)
ReachFrom(es, S) ==
    LET T == S \cup {e[2] : e \in {d \in es : d[1] \in S}}
    IN  IF T = S THEN S ELSE ReachFrom(es, T)

Directed(g) == Range(g.edges)
Undirected(g) == Directed(g) \cup {<<e[2], e[1]>> : e \in Directed(g)}

\* Positions of the edges into n.
InEdges(g, n) == {i \in DOMAIN g.edges : g.edges[i][2] = n}

\* `out` lists every node of N exactly once.
IsPartition(out, N) ==
    /\ \A i \in DOMAIN out : Range(out[i]) \subseteq N
    /\ \A n \in N :
        Cardinality({<<i, j>> \in (DOMAIN out) \X (1..(Cardinality(N) + 1)) :
                        j \in DOMAIN out[i] /\ out[i][j] = n}) = 1

Together(out, m, n) == \E i \in DOMAIN out : {m, n} \subseteq Range(out[i])

\* C2: weak components.  The output of graph_components partitions the
\* node set, and two nodes share a component iff they are connected when
\* edges are taken as undirected.
C2_WeakComponents ==
    analysis.key = "2" =>
        LET g == analysis.on
            N == NodeIndices(g)
        IN  /\ IsPartition(analysis.out, N)
            /\ \A m, n \in N :
                Together(analysis.out, m, n) <=> n \in ReachFrom(Undirected(g), {m})

\* C3: self-loop exclusion.  A node whose only incoming edges are
\* self-loops is never an inline candidate.
C3_SelfLoopExcluded ==
    analysis.key = "1" =>
        LET g == analysis.on
        IN  \A n \in NodeIndices(g) :
                (InEdges(g, n) # {} /\ \A i \in InEdges(g, n) : g.edges[i][1] = n)
                    => n \notin Range(analysis.out[1])

\* C4: incoming-edge counting.  Every call site counts: a node with two or
\* more incoming edges, also from one caller, is not a candidate, and a node
\* with exactly one incoming edge, from another node, is.
C4_InlineCounting ==
    analysis.key = "1" =>
        LET g == analysis.on
        IN  \A n \in NodeIndices(g) :
                /\ Cardinality(InEdges(g, n)) >= 2 => n \notin Range(analysis.out[1])
                /\ (\E i \in InEdges(g, n) : InEdges(g, n) = {i} /\ g.edges[i][1] # n)
                        => n \in Range(analysis.out[1])

\* One node called twice by one caller and by nobody else, and a candidate.
C4_Witness ==
    /\ analysis.key = "1"
    /\ LET g == analysis.on
       IN  /\ \E n \in NodeIndices(g) :
                /\ Cardinality(InEdges(g, n)) = 2
                /\ Cardinality({g.edges[i][1] : i \in InEdges(g, n)}) = 1
                /\ n \notin {g.edges[i][1] : i \in InEdges(g, n)}
                /\ n \notin Range(analysis.out[1])
           /\ analysis.out[1] # <<>>

\* C5: strongly connected components.  The output of kosaraju_scc
\* partitions the node set, and two nodes share a component iff each is
\* reachable from the other along directed edges.
C5_Scc ==
    analysis.key = "3" =>
        LET g == analysis.on
            N == NodeIndices(g)
        IN  /\ IsPartition(analysis.out, N)
            /\ \A m, n \in N :
                Together(analysis.out, m, n) <=>
                    /\ n \in ReachFrom(Directed(g), {m})
                    /\ m \in ReachFrom(Directed(g), {n})

\* A two-node cycle in one component, a node with a self-loop alone in its
\* own.
C5_Witness ==
    /\ analysis.key = "3"
    /\ \E i \in DOMAIN analysis.out : Len(analysis.out[i]) = 2
    /\ \E i \in DOMAIN analysis.out :
        /\ Len(analysis.out[i]) = 1
        /\ <<analysis.out[i][1], analysis.out[i][1]>> \in Directed(analysis.on)

-----------------------------------------------------------------------------
(* Properties of load_graph *)

\* The edges of a built graph, as a bag of <<caller, callee>>.
RECURSIVE BagOfSeq(_)
BagOfSeq(q) == IF q = <<>> THEN EmptyBag ELSE SetToBag({Head(q)}) (+) BagOfSeq(Tail(q))

EdgeSeqOf(G, order) ==
    Flatten([i \in DOMAIN order |->
                [j \in DOMAIN G[order[i]] |-> <<order[i], G[order[i]][j]>>]])

BuiltEdges(G) == BagOfSeq(EdgeSeqOf(G, CHOOSE p \in Perms(DOMAIN G) : TRUE))

\* The name a node of NodeGraph is drawn with; "" when its entity is gone.
LabelOf(n) ==
    IF res_graph.nodes[n] \in DOMAIN nodes THEN nodes[res_graph.nodes[n]].label ELSE ""

LabelPair(e) == <<LabelOf(e[1]), LabelOf(e[2])>>
Labelled(es) == [i \in DOMAIN es |-> LabelPair(es[i])]

RECURSIVE SumOver(_, _)
SumOver(S, f) ==
    IF S = {} THEN 0
    ELSE LET x == CHOOSE y \in S : TRUE IN f[x] + SumOver(S \ {x}, f)

\* A bag of Edge components, as a bag of <<caller, callee>>.
LabelledBag(b) ==
    [p \in {LabelPair(e) : e \in DOMAIN b} |->
        SumOver({e \in DOMAIN b : LabelPair(e) = p}, b)]

\* C8: a rebuild fully replaces.  Once load_graph has handled the events
\* sent so far, NodeGraph, the Node entities and the Edge entities hold
\* exactly the nodes and edges of the graph built last.
C8_FullReplace ==
    (built # <<>> /\ events = 0) =>
        LET G == built[Len(built)]
        IN  /\ Len(res_graph.nodes) = Cardinality(DOMAIN G)
            /\ {LabelOf(n) : n \in NodeIndices(res_graph)} = DOMAIN G
            /\ Cardinality(DOMAIN nodes) = Cardinality(DOMAIN G)
            /\ {nodes[e].label : e \in DOMAIN nodes} = DOMAIN G
            /\ BagOfSeq(Labelled(res_graph.edges)) = BuiltEdges(G)
            /\ LabelledBag(edges) = BuiltEdges(G)

-----------------------------------------------------------------------------
(* SpecFrames: the app as src/ runs it, frame after frame: the one load,   *)
(* then draw_edges, add_node_forces and the mouse moving the nodes.  A     *)
(* position is a spot for (x, y) and the number z.                         *)

\* The (x, y) the generator draws from, lines 119-120.
RngSpots == {"p", "q"}
\* The (x, y) a node can be at; "nan" is a vector with a NaN component,
\* which calc_force gives for two nodes at one place (lines 341-345).
Spots == RngSpots \cup {"nan"}

\* Equality of the (x, y) only, as truncate() would compare.
SamePlaceXY(t, u) == t.xy # "nan" /\ u.xy # "nan" /\ t.xy = u.xy

\* Line 238, `head.translation == tail.translation`: Vec3 equality, all
\* three components, a NaN equal to nothing.
SamePlace(t, u) == t.xy # "nan" /\ u.xy # "nan" /\ t.xy = u.xy /\ t.z = u.z

\* graph.get_node(index) and nodes.get_component::<Transform>(entity), both
\* unwrapped: the lookup fails for an index NodeGraph does not have and
\* for an entity without a Node component.
HasTransform(index) ==
    /\ index \in NodeIndices(res_graph)
    /\ res_graph.nodes[index] \in DOMAIN translation

TransformOf(index) == translation[res_graph.nodes[index]]

\* Lines 183-286 for one Edge read by the query: a self edge is spawned
\* again, any other edge unless its two nodes are at the same translation.
Respawned(edge) ==
    \/ edge[1] = edge[2]
    \/ ~SamePlace(TransformOf(edge[1]), TransformOf(edge[2]))

\* draw_edges, lines 167-289: every Edge entity is despawned, and spawned
\* again or not; the commands apply when the system ends.
DrawEdges ==
    /\ ~panicked /\ started
    /\ IF \E edge \in BagToSet(edges) : ~HasTransform(edge[1]) \/ ~HasTransform(edge[2])
       THEN /\ panicked' = TRUE
            /\ UNCHANGED <<edges, drawn>>
       ELSE /\ edges' = Restrict(edges, {edge \in BagToSet(edges) : Respawned(edge)})
            /\ drawn' = {edge \in BagToSet(edges) :
                            /\ edge[1] # edge[2]
                            /\ SamePlaceXY(TransformOf(edge[1]), TransformOf(edge[2]))}
            /\ UNCHANGED panicked
    /\ UNCHANGED <<file, events, sent, started, res_graph, nodes, next_entity,
                   highlight, analysis, built, translation, rng>>
    /\ UNCHANGED <<bvars, wvars>>

\* add_node_forces, lines 291-339: every addition to a translation is a
\* vector extended by 0., so a node's (x, y) becomes whatever the f32
\* arithmetic gives and its z stays.
AddNodeForces ==
    /\ ~panicked /\ started /\ translation # EmptyMap
    /\ IF \E edge \in BagToSet(edges) :
            edge[1] # edge[2] /\ (~HasTransform(edge[1]) \/ ~HasTransform(edge[2]))
       THEN /\ panicked' = TRUE
            /\ UNCHANGED translation
       ELSE /\ \E xy \in [DOMAIN translation -> Spots] :
                translation' = [e \in DOMAIN translation |->
                                    [translation[e] EXCEPT !.xy = xy[e]]]
            /\ UNCHANGED panicked
    /\ UNCHANGED <<file, events, sent, started, res_graph, nodes, edges,
                   next_entity, highlight, analysis, built, rng, drawn>>
    /\ UNCHANGED <<bvars, wvars>>

\* move_draggable_locked, lines 371-380: the one entity the mouse holds
\* goes to the cursor and keeps its z.
MoveDraggableLocked ==
    /\ ~panicked /\ started
    /\ \E e \in DOMAIN translation : \E cursor \in RngSpots :
        translation' = [translation EXCEPT ![e].xy = cursor]
    /\ UNCHANGED <<file, events, sent, started, res_graph, nodes, edges,
                   next_entity, highlight, analysis, built, panicked, rng, drawn>>
    /\ UNCHANGED <<bvars, wvars>>

FrameModules == ModulesWith(MaxFrameCalls)

InitFrames ==
    /\ file \in FrameModules
    /\ rng \in {<<"p">>, <<"p", "q">>}
    /\ events = 0 /\ sent = 0 /\ started = FALSE
    /\ res_graph = [nodes |-> <<>>, edges |-> <<>>]
    /\ nodes = EmptyMap /\ edges = EmptyBag /\ next_entity = 1
    /\ highlight = EmptyMap /\ analysis = NoAnalysis
    /\ built = <<>> /\ panicked = FALSE
    /\ translation = EmptyMap /\ drawn = {}
    /\ BuildIdle /\ WalkIdle

NextFrames ==
    Setup \/ LoadGraphSys \/ DrawEdges \/ MoveDraggableLocked \/ AddNodeForces

SpecFrames == InitFrames /\ [][NextFrames]_vars

-----------------------------------------------------------------------------
(* SpecRebuild: generate_graph called again and again on one source, as    *)
(* load_graph does for every LoadGraph event (visualize.rs:115).  The      *)
(* source parses; each call runs the loop of generate_graph.rs:18-37 step  *)
(* by step on its own locals.                                              *)

RebuildStmts ==
    CallStmts \cup NestedStmts \cup
    { Assign(<<Subscript(CallN("a"), X)>>, CallN("b")),
      If(CallN("a"), <<ExprStmt(CallN("b"))>>, <<>>),
      Try(<<ExprStmt(CallN("a"))>>, <<ExprStmt(CallN("b"))>>, <<>>,
          <<ExprStmt(CallN("a"))>>) } \cup
    {Def(k, n, body) : k \in DefKinds, n \in BuildNames,
                       body \in {<<>>, <<ExprStmt(CallN("b"))>>,
                                 <<ExprStmt(CallN("a")), ExprStmt(CallN("a"))>>}}

RebuildModules == SeqsUpTo(RebuildStmts, MaxRebuildStmts)

InitRebuild ==
    /\ BuildIdle /\ WalkIdle
    /\ file \in RebuildModules
    /\ events = 0 /\ sent = 0 /\ started = FALSE
    /\ res_graph = [nodes |-> <<>>, edges |-> <<>>]
    /\ nodes = EmptyMap /\ edges = EmptyBag /\ next_entity = 1
    /\ highlight = EmptyMap /\ analysis = NoAnalysis
    /\ built = <<>> /\ panicked = FALSE
    /\ translation = EmptyMap /\ rng = <<"p">> /\ drawn = {}

\* A graph that outlives the call: the next build starts from it.
NewGraphShared(previous) == previous

\* Line 18, `let mut graph = HashMap::new()`: the graph of a call is a new
\* local, whatever the last call left in `previous`.
NewGraph(previous) == EmptyMap

\* Line 13: generate_graph is entered; every local is new.
CallGenerate ==
    /\ pc \in {"idle", "done"} /\ Len(built) < MaxBuilds
    /\ pc' = "parse"
    /\ graph' = NewGraph(graph)
    /\ current_name' = "" /\ todo' = <<>> /\ stmt' = <<>>
    /\ graph0' = EmptyMap /\ scopes' = <<>> /\ walked' = EmptyMap
    /\ parsed' = <<>> /\ result' = <<>>
    /\ UNCHANGED <<wvars, vvars>>

\* Lines 20-34 up to the first build_graph call, for the next statement of
\* the parsed module.
RebuildStmt ==
    /\ pc = "loop" /\ todo = <<>> /\ Len(scopes) < Len(file)
    /\ LET s == file[Len(scopes) + 1]
       IN  /\ current_name' = ScopeName(s, current_name)
           /\ graph' = EnterScope(s, graph)
           /\ todo' = TopLevelExprs(s)
           /\ stmt' = <<s>>
           /\ graph0' = graph
           /\ scopes' = Append(scopes, current_name')
    /\ UNCHANGED <<pc, walked, parsed, result>>
    /\ UNCHANGED <<wvars, vvars>>

\* Line 37 once module.body is exhausted; the caller keeps the graph.
RebuildReturn ==
    /\ pc = "loop" /\ todo = <<>> /\ Len(scopes) = Len(file)
    /\ pc' = "done"
    /\ result' = <<"Ok", graph>>
    /\ built' = Append(built, graph)
    /\ UNCHANGED <<graph, current_name, todo, stmt, graph0, scopes, walked, parsed>>
    /\ UNCHANGED <<wvars, file, events, sent, started, res_graph, nodes, edges,
                   next_entity, highlight, analysis, panicked, translation, rng,
                   drawn>>

NextRebuild ==
    CallGenerate \/ ParseOk \/ RebuildStmt \/ BuildGraph \/ RebuildReturn

SpecRebuild == InitRebuild /\ [][NextRebuild]_vars

-----------------------------------------------------------------------------
(* Frame, determinism and error properties of generate_graph *)

\* The statement kinds of the `_ => {}` arm that have calls to lose:
\* conditionals, class definitions, match, imports, raise, definitions in a
\* body, loop control and scope declarations.
NoOpKinds ==
    {"If", "ClassDef", "Match", "Import", "ImportFrom", "Raise", "FunctionDef",
     "AsyncFunctionDef", "Break", "Continue", "Global", "Nonlocal"}

\* A statement without the statements of those kinds in any of its blocks
\* and without its exception handlers.
RECURSIVE Kept(_), KeptBlock(_)
KeptBlock(ss) ==
    IF ss = <<>> THEN <<>>
    ELSE (IF Head(ss).kind \in NoOpKinds THEN <<>> ELSE <<Kept(Head(ss))>>)
            \o KeptBlock(Tail(ss))

Kept(s) ==
    [s EXCEPT !.body = KeptBlock(@), !.orelse = KeptBlock(@),
              !.finalbody = KeptBlock(@),
              !.handlers = IF s.kind = "Try" THEN <<>> ELSE KeptBlock(@)]

\* Some expression of the statement or of its blocks contains a call.
RECURSIVE HasCalls(_), BlockHasCalls(_)
BlockHasCalls(ss) == \E i \in DOMAIN ss : HasCalls(ss[i])

HasCalls(s) ==
    \/ WalkEach(s.x \o s.y) # <<>>
    \/ s.kind = "With" /\ WalkEach(ItemExprs(s.x)) # <<>>
    \/ BlockHasCalls(s.body) \/ BlockHasCalls(s.handlers)
    \/ BlockHasCalls(s.orelse) \/ BlockHasCalls(s.finalbody)

\* C11: unhandled statement kinds are no-ops.  When a top-level statement
\* has been processed: if it is itself a conditional, class definition,
\* match, import, raise, loop-control or scope-declaration statement, the
\* graph is the graph from before it (no key added, no sequence extended);
\* otherwise the graph is what processing the statement gives once every
\* statement of those kinds (and every definition) inside its blocks and
\* every exception-handler body of its try statements is taken out, so
\* none of them contributed a key or an entry, whatever calls they hold.
C11_UnhandledNoOp ==
    StmtComplete =>
        LET s == stmt[1]
        IN  IF ~IsDef(s) /\ s.kind \in NoOpKinds
            THEN graph = graph0
            ELSE graph = BuildAll(TopLevelExprs(Kept(s)), ScopeOf(s),
                                  EnterScope(s, graph0))

\* A definition whose body is one no-op statement holding calls has been
\* processed as the third statement, after module-level calls gave the
\* graph keys.
C11_Witness ==
    /\ StmtComplete
    /\ Len(scopes) = 3
    /\ IsDef(stmt[1]) /\ Len(stmt[1].body) = 1
    /\ stmt[1].body[1].kind \in NoOpKinds /\ HasCalls(stmt[1].body[1])
    /\ graph0 # EmptyMap /\ "..." \in DOMAIN graph0
    /\ graph[stmt[1].name] = <<>>

\* C12: determinism.  All graphs built from one source have the same key
\* set and, for every key, the same sequence (same names, same order, same
\* duplicates): nothing a build leaves behind reaches the next build.
C12_Determinism ==
    \A i, j \in DOMAIN built :
        /\ DOMAIN built[i] = DOMAIN built[j]
        /\ \A k \in DOMAIN built[i] : built[i][k] = built[j][k]

\* Two builds have returned, of a source that gives some key a sequence
\* with a repeated name, and more than one key.
C12_Witness ==
    /\ Len(built) = 2 /\ pc = "done"
    /\ Cardinality(DOMAIN built[2]) >= 2
    /\ \E k \in DOMAIN built[2] :
        Len(built[2][k]) >= 2 /\ built[2][k][1] = built[2][k][2]

\* C13: parse failure.  When the parser returned an error, generate_graph
\* has returned Err of exactly that error (wrapped, no context added), no
\* statement was processed and no graph exists or is returned; when the
\* parser returned a module, generate_graph never holds an error, it can
\* always take its next step whatever statement it is at, and what it
\* returns is Ok of the graph it built.
C13_ParseFailure ==
    /\ pc = "error" => parsed # <<>> /\ parsed[1] = "Err"
    /\ parsed # <<>> /\ parsed[1] = "Err" =>
            /\ pc = "error"
            /\ result # <<>> /\ result[1] = "Err"
            /\ result[2].inner = parsed[2] /\ result[2].context = <<>>
            /\ graph = EmptyMap /\ scopes = <<>> /\ stmt = <<>>
    /\ parsed = <<"Ok">> =>
            /\ pc \in {"loop", "done"}
            /\ pc = "loop" => result = <<>> /\ ENABLED (BuildGraph \/ ReturnGraph)
            /\ pc = "done" => result = <<"Ok", graph>>
    /\ pc = "done" => parsed = <<"Ok">>

\* The parser has failed with a syntax error and generate_graph has
\* returned.
C13_Witness ==
    /\ pc = "error"
    /\ parsed = <<"Err", "invalid syntax">>
    /\ result # <<>> /\ result[1] = "Err"

\* C14: Edge entities are preserved across frames.  In every state of the
\* running app, after any number of runs of draw_edges and any movement of
\* the nodes, no system has panicked and the bag of Edge components is the
\* bag of the edges load_graph installed in NodeGraph; so a run of
\* draw_edges spawns one Edge for each Edge it despawns, also for an edge
\* whose two nodes are at the same (x, y).
C14_EdgesPreserved ==
    /\ ~panicked
    /\ edges = BagOfSeq(res_graph.edges)

\* draw_edges has run on an edge between two different nodes that were
\* at the same (x, y), and the edge is still there.
C14_Witness ==
    /\ ~panicked
    /\ \E edge \in drawn : edge[1] # edge[2] /\ edge \in BagToSet(edges)

=============================================================================
